---- MODULE Spec2Model ----
(***************************************************************************)
(* The ipvsdr provider of the loadbalancer controller                      *)
(* (provider/providers/ipvsdr/ipvsdr.go): the reconcile pass               *)
(* syncLoadBalancer with its claim, converge (sync) and cleanup paths, the *)
(* work queue that feeds it, and the object store and informer caches it   *)
(* reads and writes.                                                       *)
(***************************************************************************)
EXTENDS Integers, Sequences, FiniteSets, TLC

(***************************************************************************)
(* Bounds of the model.                                                    *)
(***************************************************************************)
MaxReplicas == 1     \* replica counts range over 0..MaxReplicas
MaxEvents == 3       \* passes started plus mutations of the LoadBalancer
MaxQueue == 2        \* items OnSync finds waiting and still adds one
MaxCopies == 1       \* distinct object copies the host hands to OnSync
MaxWorkloads == 2    \* deployments matching the selector at start
MaxStrangers == 1    \* of which not owned by the LoadBalancer

(***************************************************************************)
(* Names.  A name is a sequence of tokens, so that strings.HasPrefix is a  *)
(* computation on it.                                                      *)
(***************************************************************************)
lbName == <<"lb">>
lbKey == "ns/lb"
providerNameSuffix == <<"-provider-ipvsdr">>
providerName == "ipvsdr"
image == "ipvsdr:current"

Suffixes == {"a", "b"}
GeneratedName(s) == lbName \o providerNameSuffix \o <<"-", s>>
LegacyName == lbName \o <<"-ipvsdr">>
Names == {GeneratedName(s) : s \in Suffixes} \cup {LegacyName}

HasPrefix(s, prefix) ==
    /\ Len(s) >= Len(prefix)
    /\ SubSeq(s, 1, Len(prefix)) = prefix

(***************************************************************************)
(* Objects.  uid 0 stands for "no object" (a nil pointer, a not-found).    *)
(* OtherController is the UID of a controller that is not a LoadBalancer   *)
(* of this name.                                                           *)
(***************************************************************************)
NoLB ==
    [name |-> lbName, uid |-> 0, del |-> FALSE, replicas |-> 0, valid |-> FALSE,
     external |-> FALSE, ipvsdrSet |-> FALSE]

\* A LoadBalancer: external is Spec.Type = external, ipvsdrSet is
\* Spec.Providers.Ipvsdr # nil.
LoadBalancer(uid, replicas, valid, external, ipvsdrSet) ==
    [name |-> lbName, uid |-> uid, del |-> FALSE, replicas |-> replicas,
     valid |-> valid, external |-> external, ipvsdrSet |-> ipvsdrSet]
Orphan == 0
OtherController == 99

selector(l) == [createdby |-> lbKey, provider |-> providerName]
nodeAffinityFor(l) == "loadbalancer.alpha.caicloud.io/ns.lb=true"

Workload(owner, replicas) ==
    [owner |-> owner, replicas |-> replicas, image |-> image,
     labels |-> selector(NoLB), nodeAffinity |-> nodeAffinityFor(NoLB),
     hostNetwork |-> TRUE]

VARIABLES
    lbStore,        \* the LoadBalancer in the object store (NoLB: none)
    lbCache,        \* the LoadBalancer in the informer cache (lbLister)
    nextUID,        \* the UID the store gives the next LoadBalancer
    dStore,         \* deployments in the object store, by name
    dCache,         \* deployments in the informer cache (dLister), by name
    ext,            \* mutations of the LoadBalancer so far
    queue,          \* the work queue: items waiting, in order
    dirty,          \* the work queue: items that need processing
    processing,     \* the work queue: items being processed
    pc,             \* where the worker is in its pass
    item,           \* the queue item of the pass: the triggering copy
    lb,             \* syncLoadBalancer's lb
    got,            \* how lbLister.Get answered in this pass
    nlb,            \* syncLoadBalancer's nlb: the object Get returned
    mode,           \* "sync" or "cleanup" once the pass lists deployments
    dList,          \* the listed deployments (name and cached object)
    k,              \* the claim loop's position in dList
    ds,             \* the claimed deployments
    j,              \* the sync / cleanup loop's position in ds
    updated,        \* sync's updated
    desiredDeploy,  \* sync's desiredDeploy
    activeDeploy,   \* sync's activeDeploy
    calls,          \* the calls the pass has made, in order
    err,            \* the pass's return value: TRUE is an error
    again,          \* the pass repeats the last one, which converged, on
                    \* the state it left: same LoadBalancer, cache caught up
    settled,        \* the LoadBalancer the last pass converged, if it did
    passes          \* passes started so far

storeVars == <<lbStore, nextUID, dStore, ext>>
cacheVars == <<lbCache, dCache>>
queueVars == <<queue, dirty, processing>>
passVars == <<pc, item, lb, got, nlb, mode, dList, k, ds, j, updated,
              desiredDeploy, activeDeploy, calls, err, again, passes>>
vars == <<lbStore, lbCache, nextUID, dStore, dCache, ext, queue, dirty,
          processing, pc, item, lb, got, nlb, mode, dList, k, ds, j, updated,
          desiredDeploy, activeDeploy, calls, err, again, settled, passes>>

NoItem == [lb |-> NoLB, ptr |-> 0]
NoDeploy == [name |-> <<>>, obj |-> Workload(Orphan, 0)]

(***************************************************************************)
(* The initial state: one LoadBalancer, the informers again (Run is       *)
(* called after the host has waited for them), an empty queue, and any     *)
(* deployments matching the selector that earlier runs or other actors     *)
(* left behind.                                                            *)
(***************************************************************************)
InitialObjects ==
    {Workload(owner, MaxReplicas) : owner \in {1, Orphan, OtherController}}

\* The generated names differ only in their random suffix: of two initial
\* states that are each other's image under a renaming of the suffixes, one
\* is kept.
InitialNames ==
    {T \in SUBSET Names :
       /\ Cardinality(T) <= MaxWorkloads
       /\ GeneratedName("b") \in T => GeneratedName("a") \in T}

InitialDeployments ==
    {d \in UNION {[S -> InitialObjects] : S \in InitialNames} :
       Cardinality({n \in DOMAIN d : d[n].owner # 1}) <= MaxStrangers}

Init ==
    /\ lbStore \in {LoadBalancer(1, MaxReplicas, v, TRUE, TRUE) : v \in BOOLEAN}
    /\ lbCache = lbStore
    /\ nextUID = 2
    /\ dStore \in InitialDeployments
    /\ dCache = dStore
    /\ ext = 0
    /\ queue = <<>>
    /\ dirty = {}
    /\ processing = {}
    /\ pc = "idle"
    /\ item = NoItem
    /\ lb = NoLB
    /\ got = "none"
    /\ nlb = NoLB
    /\ mode = "none"
    /\ dList = <<>>
    /\ k = 1
    /\ ds = <<>>
    /\ j = 1
    /\ updated = FALSE
    /\ desiredDeploy = NoDeploy
    /\ activeDeploy = NoDeploy
    /\ calls = <<>>
    /\ err = FALSE
    /\ again = FALSE
    /\ settled = NoLB
    /\ passes = 0

(***************************************************************************)
(* The rate limiting work queue (client-go workqueue): an item is its own  *)
(* key (PassthroughKeyFunc), so two items are the same item only when they *)
(* are the same object.                                                    *)
(***************************************************************************)
\* controllerutil.KeyFunc: namespace/name.
KeyFunc(l) == <<"ns", "/">> \o l.name

QueueAdd(it) ==
    IF it \in dirty
    THEN UNCHANGED queueVars
    ELSE /\ dirty' = dirty \cup {it}
         /\ queue' = IF it \in processing THEN queue ELSE Append(queue, it)
         /\ UNCHANGED processing

(***************************************************************************)
(* Other actors: the host creating, updating and deleting the              *)
(* LoadBalancer, and the informers catching up with the store.             *)
(***************************************************************************)
\* The model follows the other actors while a pass is running or can start.
Running == ext + passes < MaxEvents \/ pc # "idle"

HostCreate ==
    /\ Running
    /\ ext + passes < MaxEvents
    /\ lbStore = NoLB
    /\ \E r \in 0..MaxReplicas :
         lbStore' = LoadBalancer(nextUID, r, TRUE, TRUE, TRUE)
    /\ nextUID' = nextUID + 1
    /\ ext' = ext + 1
    /\ UNCHANGED <<dStore, cacheVars, queueVars, passVars>>
    /\ settled' = NoLB

HostUpdate ==
    /\ Running
    /\ ext + passes < MaxEvents
    /\ lbStore # NoLB
    /\ \E r \in (0..MaxReplicas) \ {lbStore.replicas} :
         lbStore' = [lbStore EXCEPT !.replicas = r]
    /\ ext' = ext + 1
    /\ UNCHANGED <<nextUID, dStore, cacheVars, queueVars, passVars>>
    /\ settled' = NoLB

\* A delete sets the deletion marker (finalizers pending) ...
HostDelete ==
    /\ Running
    /\ ext + passes < MaxEvents
    /\ lbStore # NoLB
    /\ ~lbStore.del
    /\ lbStore' = [lbStore EXCEPT !.del = TRUE]
    /\ ext' = ext + 1
    /\ UNCHANGED <<nextUID, dStore, cacheVars, queueVars, passVars>>
    /\ settled' = NoLB

\* ... or removes the object.
HostRemove ==
    /\ Running
    /\ ext + passes < MaxEvents
    /\ lbStore # NoLB
    /\ lbStore' = NoLB
    /\ ext' = ext + 1
    /\ UNCHANGED <<nextUID, dStore, cacheVars, queueVars, passVars>>
    /\ settled' = NoLB

LBInformerSync ==
    /\ Running
    /\ lbCache # lbStore
    /\ lbCache' = lbStore
    /\ UNCHANGED <<storeVars, dCache, queueVars, passVars, settled>>

DInformerSync ==
    /\ Running
    /\ dCache # dStore
    /\ dCache' = dStore
    /\ UNCHANGED <<storeVars, lbCache, passVars, settled>>
    \* the deployment event handler enqueues the cached LoadBalancer
    /\ IF lbCache # NoLB
       THEN QueueAdd([lb |-> lbCache, ptr |-> 0])
       ELSE UNCHANGED queueVars

(***************************************************************************)
(* OnSync: the host asks for a pass with its copy of the LoadBalancer.     *)
(***************************************************************************)
NotMyResponsible(external, ipvsdrSet) == ~external /\ ipvsdrSet

OnSync ==
    /\ Running
    /\ lbCache # NoLB
    /\ Len(queue) < MaxQueue
    /\ \E ptr \in 1..MaxCopies :
         IF NotMyResponsible(lbCache.external, lbCache.ipvsdrSet)
         THEN UNCHANGED queueVars
         ELSE QueueAdd([lb |-> lbCache, ptr |-> ptr])
    /\ UNCHANGED <<storeVars, cacheVars, passVars, settled>>

(***************************************************************************)
(* The worker (Run starts one): it takes an item, runs syncLoadBalancer on *)
(* it and, when that returns an error, puts the item back.                 *)
(*                                                                         *)
(* A pass is cut into steps at its reads of the caches and its calls to    *)
(* the object store: the other actors run between two steps.  What the     *)
(* pass computes between two calls is part of the step of the earlier one. *)
(***************************************************************************)
\* A call of the pass: name is the deployment it is about, obj the
\* LoadBalancer a read returned.
Call(op, name, ok, obj) == [op |-> op, name |-> name, ok |-> ok, obj |-> obj]

Dequeue ==
    /\ pc = "idle"
    /\ ext + passes < MaxEvents
    /\ queue # <<>>
    /\ item' = Head(queue)
    /\ queue' = Tail(queue)
    /\ processing' = processing \cup {Head(queue)}
    /\ dirty' = dirty \ {Head(queue)}
    /\ lb' = Head(queue).lb
    /\ pc' = "start"
    /\ passes' = passes + 1
    /\ UNCHANGED <<storeVars, cacheVars, got, nlb, mode, dList, k, ds, j, updated,
                   desiredDeploy, activeDeploy, calls, err, again, settled>>

\* sync has run to its end and returned nil.
Converged == pc = "done" /\ mode = "sync" /\ desiredDeploy # NoDeploy /\ ~err

\* syncLoadBalancer has returned: an error puts the item back
\* (AddRateLimited), and Done lets an item added meanwhile be queued again.
Finish ==
    /\ pc = "done"
    /\ pc' = "idle"
    /\ processing' = processing \ {item}
    /\ IF err \/ item \in dirty
       THEN /\ dirty' = dirty \cup {item}
            /\ queue' = Append(queue, item)
       ELSE UNCHANGED <<queue, dirty>>
    /\ item' = NoItem
    /\ lb' = NoLB
    /\ got' = "none"
    /\ nlb' = NoLB
    /\ mode' = "none"
    /\ dList' = <<>>
    /\ k' = 1
    /\ ds' = <<>>
    /\ j' = 1
    /\ updated' = FALSE
    /\ desiredDeploy' = NoDeploy
    /\ activeDeploy' = NoDeploy
    /\ calls' = <<>>
    /\ err' = FALSE
    /\ again' = FALSE
    /\ settled' = IF Converged THEN lb ELSE NoLB
    /\ UNCHANGED <<storeVars, cacheVars, passes>>

(***************************************************************************)
(* generateDeployment and ensureDeployment.                                *)
(***************************************************************************)
CalculateReplicas(l) == l.replicas

\* s is the random suffix RandStringBytesRmndr draws.
generateDeployment(l, s) ==
    [name |-> l.name \o providerNameSuffix \o <<"-", s>>,
     obj |-> [owner |-> l.uid,
              replicas |-> CalculateReplicas(l),
              image |-> image,
              labels |-> selector(l),
              nodeAffinity |-> nodeAffinityFor(l),
              hostNetwork |-> TRUE]]

\* The labels taken from desired as they are: what C11 guards against.
ensureDeployment_LabelsReplaced(desired, oldDeploy) ==
    LET copyDp ==
            [oldDeploy EXCEPT
               !.labels = desired.labels,
               !.replicas = desired.replicas,
               !.image = desired.image,
               !.nodeAffinity = desired.nodeAffinity]
    IN  [copyDp |-> copyDp, changed |-> copyDp # oldDeploy]

\* The image left out of the comparison: what C16 guards against.
ensureDeployment_ImageNotCompared(desired, oldDeploy) ==
    LET copyDp ==
            [oldDeploy EXCEPT
               !.labels = [key \in DOMAIN oldDeploy.labels \cup DOMAIN desired.labels |->
                             IF key \in DOMAIN desired.labels
                             THEN desired.labels[key]
                             ELSE oldDeploy.labels[key]],
               !.replicas = desired.replicas,
               !.image = desired.image,
               !.nodeAffinity = desired.nodeAffinity]
    IN  [copyDp |-> copyDp,
         changed |-> \/ copyDp.labels # oldDeploy.labels
                     \/ copyDp.replicas # oldDeploy.replicas
                     \/ copyDp.nodeAffinity # oldDeploy.nodeAffinity]

ensureDeployment(desired, oldDeploy) ==
    LET copyDp ==
            [oldDeploy EXCEPT
               !.labels = [key \in DOMAIN oldDeploy.labels \cup DOMAIN desired.labels |->
                             IF key \in DOMAIN desired.labels
                             THEN desired.labels[key]
                             ELSE oldDeploy.labels[key]],
               !.replicas = desired.replicas,
               !.image = desired.image,
               !.nodeAffinity = desired.nodeAffinity]
        nodeAffinityChanged == copyDp.nodeAffinity # oldDeploy.nodeAffinity
        imageChanged == copyDp.image # oldDeploy.image
        labelChanged == copyDp.labels # oldDeploy.labels
        replicasChanged == copyDp.replicas # oldDeploy.replicas
    IN  [copyDp |-> copyDp,
         changed |-> labelChanged \/ replicasChanged \/ nodeAffinityChanged
                        \/ imageChanged]

(***************************************************************************)
(* sync's loop over the claimed deployments, up to its next Update.        *)
(***************************************************************************)
\* Every deployment with the prefix taken for a target: what C15 guards
\* against.
Unexpected_ByNameOnly(l, dp, upd) ==
    ~HasPrefix(dp.name, l.name \o providerNameSuffix)

\* "!strings.HasPrefix(dp.Name, lb.Name+providerNameSuffix) || updated"
Unexpected(l, dp, upd) ==
    ~HasPrefix(dp.name, l.name \o providerNameSuffix) \/ upd

\* The loop from position jj on, run until a deployment needs an Update (an
\* unexpected one with replicas, or the target when it has changed) or the
\* list ends: the position reached, and updated and activeDeploy there.
RECURSIVE SyncFrom(_, _, _, _, _, _)
SyncFrom(l, desired, dps, jj, upd, active) ==
    IF jj > Len(dps)
    THEN [j |-> jj, updated |-> upd, activeDeploy |-> active]
    ELSE IF Unexpected(l, dps[jj], upd)
         THEN IF dps[jj].obj.replicas = 0
              THEN SyncFrom(l, desired, dps, jj + 1, upd, active)
              ELSE [j |-> jj, updated |-> upd, activeDeploy |-> active]
         ELSE LET e == ensureDeployment(desired.obj, dps[jj].obj)
              IN  IF e.changed
                  THEN [j |-> jj, updated |-> upd, activeDeploy |-> active]
                  ELSE SyncFrom(l, desired, dps, jj + 1, TRUE,
                                [name |-> dps[jj].name, obj |-> e.copyDp])

\* A Create whatever the loop found: what C12 guards against.
SyncPc_CreateAnyway(r, dps) ==
    IF r.j <= Len(dps) THEN "update" ELSE "create"

\* No Create at all: what C17 guards against.
SyncPc_NoCreate(r, dps) ==
    IF r.j <= Len(dps) THEN "update" ELSE "status"

\* Where the pass is once the loop has run to position r.j.
SyncPc(r, dps) ==
    IF r.j <= Len(dps) THEN "update"
    ELSE IF ~r.updated THEN "create"
    ELSE "status"

\* The suffix of desiredDeploy's name shows only when the deployment is
\* created, which is when no claimed deployment has the prefix: one draw
\* stands for all when one has.
Draws(l, dps) ==
    IF \E i \in DOMAIN dps : HasPrefix(dps[i].name, l.name \o providerNameSuffix)
    THEN {"a"}
    ELSE Suffixes

(***************************************************************************)
(* The claim (the controller ref manager's Claim) over the listed          *)
(* deployments, up to its next adoption.                                   *)
(***************************************************************************)
\* The claim manager's verdict on a listed deployment.
ClaimVerdict(l, obj) ==
    IF obj.owner = l.uid THEN "owned"
    ELSE IF obj.owner = Orphan THEN "adopt"
    ELSE "foreign"

\* The claim from position kk on, run until a deployment is to be adopted
\* or the list ends: the position reached and the deployments claimed.
RECURSIVE ClaimFrom(_, _, _, _)
ClaimFrom(l, list, kk, acc) ==
    IF kk > Len(list)
    THEN [k |-> kk, ds |-> acc]
    ELSE IF ClaimVerdict(l, list[kk].obj) = "adopt"
         THEN [k |-> kk, ds |-> acc]
         ELSE ClaimFrom(l, list, kk + 1,
                        IF ClaimVerdict(l, list[kk].obj) = "owned"
                        THEN Append(acc, list[kk])
                        ELSE acc)

\* "if lb.DeletionTimestamp != nil"
\* The deletion check left out: what C9 guards against.
DeletionInProgress_Ignored(l) == FALSE

DeletionInProgress(l) == l.del

\* The pass goes on from position kk of the claim with acc claimed: to the
\* next adoption or, the claim over, into cleanup's deletes or, in
\* syncLoadBalancer, past the deletion check into sync.
Proceed(list, kk, acc) ==
    LET c == ClaimFrom(lb, list, kk, acc)
    IN  /\ k' = c.k
        /\ ds' = c.ds
        /\ err' = FALSE
        /\ IF c.k <= Len(list)
           THEN /\ pc' = "canAdopt"
                /\ UNCHANGED <<j, updated, desiredDeploy, activeDeploy>>
           ELSE IF mode = "cleanup"
           THEN /\ pc' = IF c.ds = <<>> THEN "done" ELSE "delete"
                /\ j' = 1
                /\ UNCHANGED <<updated, desiredDeploy, activeDeploy>>
           ELSE IF DeletionInProgress(lb)
           THEN /\ pc' = "done"
                /\ UNCHANGED <<j, updated, desiredDeploy, activeDeploy>>
           ELSE \E s \in Draws(lb, c.ds) :
                  LET desired == generateDeployment(lb, s)
                      r == SyncFrom(lb, desired, c.ds, 1, FALSE, desired)
                  IN  /\ desiredDeploy' = desired
                      /\ j' = r.j
                      /\ updated' = r.updated
                      /\ activeDeploy' = r.activeDeploy
                      /\ pc' = SyncPc(r, c.ds)

(***************************************************************************)
(* syncLoadBalancer, up to the list of the deployments.                    *)
(***************************************************************************)
ValidateLoadBalancer(l) == l.valid

\* Validation left out: what C10 guards against.
Invalid_Accepted(l) == FALSE

\* "if err := validation.ValidateLoadBalancer(lb); err != nil"
Invalid(l) == ~ValidateLoadBalancer(l)

\* The pass going on with its triggering copy: what C8 guards against.
FreshLB_TriggeringCopy(l, fetched) == l

\* "lb = nlb": from here on the pass works on the object Get returned.
FreshLB(l, fetched) == fetched

\* Every failed Get taken for a deletion: what C7 guards against.
AfterGet_CleanupOnError(answer, l, fetched) ==
    IF answer \in {"notfound", "error"} THEN "cleanup"
    ELSE IF l.uid # fetched.uid THEN "stale"
    ELSE "fresh"

\* What the pass does with the answer of lbLister.Get.
AfterGet(answer, l, fetched) ==
    IF answer = "notfound" THEN "cleanup"
    ELSE IF answer = "error" THEN "fail"
    ELSE IF l.uid # fetched.uid THEN "stale"
    ELSE "fresh"

syncLoadBalancer ==
    /\ pc = "start"
    /\ IF Invalid(lb)
       THEN /\ err' = TRUE
            /\ pc' = "done"
            /\ UNCHANGED <<lb, got, nlb, mode, calls>>
       ELSE \E answer \in {"error", IF lbCache = NoLB THEN "notfound" ELSE "found"} :
              LET fetched == IF answer = "found" THEN lbCache ELSE NoLB
                  branch == AfterGet(answer, lb, fetched)
              IN  /\ got' = answer
                  /\ nlb' = fetched
                  /\ calls' = Append(calls, Call("get", <<>>, answer = "found", fetched))
                  /\ lb' = IF branch = "fresh" THEN FreshLB(lb, fetched) ELSE lb
                  /\ mode' = CASE branch = "cleanup" -> "cleanup"
                               [] branch = "fresh" -> "sync"
                               [] OTHER -> mode
                  /\ err' = (branch = "fail")
                  /\ pc' = IF branch \in {"cleanup", "fresh"} THEN "list" ELSE "done"
    /\ UNCHANGED <<storeVars, cacheVars, queueVars, passes, settled, again, item, dList, k, ds, j,
                   updated, desiredDeploy, activeDeploy>>

(***************************************************************************)
(* getDeploymentsForLoadBalancer: list by selector from the cache, in any  *)
(* order the cache gives, then claim.                                      *)
(***************************************************************************)
Matches(sel, labels) ==
    \A key \in DOMAIN sel : key \in DOMAIN labels /\ labels[key] = sel[key]

Orderings(S) ==
    {o \in [1..Cardinality(S) -> S] : \A n \in S : \E i \in DOMAIN o : o[i] = n}

List ==
    /\ pc = "list"
    /\ again' = (settled # NoLB /\ settled = lb /\ dCache = dStore)
    /\ settled' = NoLB
    /\ \/ /\ calls' = Append(calls, Call("list", <<>>, FALSE, NoLB))
          /\ err' = TRUE
          /\ pc' = "done"
          /\ UNCHANGED <<dList, k, ds, j, updated, desiredDeploy, activeDeploy>>
       \/ /\ calls' = Append(calls, Call("list", <<>>, TRUE, NoLB))
          /\ \E o \in Orderings({n \in DOMAIN dCache :
                                   Matches(selector(lb), dCache[n].labels)}) :
               LET list == [i \in DOMAIN o |-> [name |-> o[i], obj |-> dCache[o[i]]]]
               IN  /\ dList' = list
                   /\ Proceed(list, 1, <<>>)
    /\ UNCHANGED <<storeVars, cacheVars, queueVars, passes, item, lb, got, nlb,
                   mode>>

\* The recheck without its UID check: what C4 guards against.
canAdoptFunc_AnyUID(l, fresh) ==
    /\ fresh # NoLB
    /\ ~fresh.del

\* canAdoptFunc: the uncached read of the LoadBalancer, its UID check and
\* RecheckDeletionTimestamp's check of the deletion marker.
canAdoptFunc(l, fresh) ==
    /\ fresh # NoLB
    /\ fresh.uid = l.uid
    /\ ~fresh.del

\* The read answers with the stored object, or fails.
CanAdopt ==
    /\ pc = "canAdopt"
    /\ \E fresh \in {NoLB, lbStore} :
         IF canAdoptFunc(lb, fresh)
         THEN /\ calls' = Append(calls, Call("canAdopt", dList[k].name, TRUE, fresh))
              /\ pc' = "adopt"
              /\ UNCHANGED <<k, ds, j, updated, desiredDeploy, activeDeploy, err>>
         ELSE /\ calls' = Append(calls, Call("canAdopt", dList[k].name, FALSE, fresh))
              /\ Proceed(dList, k + 1, ds)
    /\ UNCHANGED <<storeVars, cacheVars, queueVars, passes, settled, again, item, lb, got, nlb,
                   mode, dList>>

\* The adoption: the patch that makes the LoadBalancer the deployment's
\* controller.  It lands on an orphan still in the store, or fails.
Adopt ==
    /\ pc = "adopt"
    /\ LET name == dList[k].name
       IN  \/ /\ name \in DOMAIN dStore
              /\ dStore[name].owner = Orphan
              /\ dStore' = [dStore EXCEPT ![name].owner = lb.uid]
              /\ calls' = Append(calls, Call("adopt", name, TRUE, NoLB))
              /\ Proceed(dList, k + 1, Append(ds, dList[k]))
           \/ /\ calls' = Append(calls, Call("adopt", name, FALSE, NoLB))
              /\ Proceed(dList, k + 1, ds)
              /\ UNCHANGED dStore
    /\ UNCHANGED <<lbStore, nextUID, ext, cacheVars, queueVars, passes, settled, again, item, lb,
                   got, nlb, mode, dList>>

(***************************************************************************)
(* The object store's Update, Create and Delete of a deployment.  An       *)
(* Update carries the resource version of the object it was copied from:   *)
(* it applies only while the stored object is still that object.           *)
(***************************************************************************)
UpdateApplies(name, orig) == name \in DOMAIN dStore /\ dStore[name] = orig

Put(store, name, obj) ==
    [n \in DOMAIN store \cup {name} |-> IF n = name THEN obj ELSE store[n]]

Remove(store, name) == [n \in DOMAIN store \ {name} |-> store[n]]

(***************************************************************************)
(* cleanup: one Delete for each claimed deployment, its error dropped.     *)
(***************************************************************************)
gracePeriodSeconds == 30

DeleteOptions ==
    [gracePeriodSeconds |-> gracePeriodSeconds, propagationPolicy |-> "Foreground"]

\* The loop ended by a failed Delete: what C14 guards against.
CleanupPc_StopAtError(ok, jj, n) ==
    IF ~ok \/ jj + 1 > n THEN "done" ELSE "delete"

\* Where cleanup is after the Delete at position jj of n: the Delete's
\* answer is not looked at.
CleanupPc(ok, jj, n) ==
    IF jj + 1 > n THEN "done" ELSE "delete"

Cleanup ==
    /\ pc = "delete"
    /\ LET name == ds[j].name
       IN  \/ /\ name \in DOMAIN dStore
              /\ dStore' = Remove(dStore, name)
              /\ calls' = Append(calls, Call("delete", name, TRUE, DeleteOptions))
              /\ pc' = CleanupPc(TRUE, j, Len(ds))
           \/ /\ calls' = Append(calls, Call("delete", name, FALSE, DeleteOptions))
              /\ pc' = CleanupPc(FALSE, j, Len(ds))
              /\ UNCHANGED dStore
    /\ j' = j + 1
    /\ err' = FALSE
    /\ UNCHANGED <<lbStore, nextUID, ext, cacheVars, queueVars, passes, settled, again, item, lb,
                   got, nlb, mode, dList, k, ds, updated, desiredDeploy,
                   activeDeploy>>

(***************************************************************************)
(* sync.                                                                   *)
(***************************************************************************)
\* The loop goes on behind position j.
SyncOn(upd, active) ==
    LET r == SyncFrom(lb, desiredDeploy, ds, j + 1, upd, active)
    IN  /\ j' = r.j
        /\ updated' = r.updated
        /\ activeDeploy' = r.activeDeploy
        /\ pc' = SyncPc(r, ds)

\* An unexpected deployment with replicas is scaled to zero; the Update's
\* error is dropped.
SyncScaleDown ==
    /\ pc = "update"
    /\ Unexpected(lb, ds[j], updated)
    /\ LET name == ds[j].name
           copy == [ds[j].obj EXCEPT !.replicas = 0]
       IN  \/ /\ UpdateApplies(name, ds[j].obj)
              /\ dStore' = [dStore EXCEPT ![name] = copy]
              /\ calls' = Append(calls, Call("scale", name, TRUE, NoLB))
           \/ /\ calls' = Append(calls, Call("scale", name, FALSE, NoLB))
              /\ UNCHANGED dStore
    /\ SyncOn(updated, activeDeploy)
    /\ UNCHANGED <<lbStore, nextUID, ext, cacheVars, queueVars, passes, settled, again, item, lb,
                   got, nlb, mode, dList, k, ds, desiredDeploy, err>>

\* The first deployment with the generated prefix is the target; it has
\* changed, and its Update's error ends the pass.
SyncTarget ==
    /\ pc = "update"
    /\ ~Unexpected(lb, ds[j], updated)
    /\ LET name == ds[j].name
           e == ensureDeployment(desiredDeploy.obj, ds[j].obj)
       IN  \/ /\ UpdateApplies(name, ds[j].obj)
              /\ dStore' = [dStore EXCEPT ![name] = e.copyDp]
              /\ calls' = Append(calls, Call("update", name, TRUE, NoLB))
              /\ SyncOn(TRUE, [name |-> name, obj |-> e.copyDp])
              /\ UNCHANGED err
           \/ /\ calls' = Append(calls, Call("update", name, FALSE, NoLB))
              /\ updated' = TRUE
              /\ err' = TRUE
              /\ pc' = "done"
              /\ UNCHANGED <<dStore, activeDeploy, j>>
    /\ UNCHANGED <<lbStore, nextUID, ext, cacheVars, queueVars, passes, settled, again, item, lb,
                   got, nlb, mode, dList, k, ds, desiredDeploy>>

\* "if !updated": no deployment had the prefix, the desired one is created.
SyncCreate ==
    /\ pc = "create"
    /\ \/ /\ desiredDeploy.name \notin DOMAIN dStore
          /\ dStore' = Put(dStore, desiredDeploy.name, desiredDeploy.obj)
          /\ calls' = Append(calls, Call("create", desiredDeploy.name, TRUE, NoLB))
          /\ pc' = "status"
          /\ UNCHANGED err
       \/ /\ calls' = Append(calls, Call("create", desiredDeploy.name, FALSE, NoLB))
          /\ err' = TRUE
          /\ pc' = "done"
          /\ UNCHANGED dStore
    /\ UNCHANGED <<lbStore, nextUID, ext, cacheVars, queueVars, passes, settled, again, item, lb,
                   got, nlb, mode, dList, k, ds, j, updated, desiredDeploy,
                   activeDeploy>>

\* syncStatus(lb, activeDeploy): the status write succeeds or fails.
SyncStatus ==
    /\ pc = "status"
    /\ \E ok \in BOOLEAN :
         /\ calls' = Append(calls, Call("status", activeDeploy.name, ok, NoLB))
         /\ err' = ~ok
    /\ pc' = "done"
    /\ UNCHANGED <<storeVars, cacheVars, queueVars, passes, settled, again, item, lb, got, nlb,
                   mode, dList, k, ds, j, updated, desiredDeploy, activeDeploy>>

(***************************************************************************)
(* The specification.                                                      *)
(***************************************************************************)
Next ==
    \/ HostCreate
    \/ HostUpdate
    \/ HostDelete
    \/ HostRemove
    \/ LBInformerSync
    \/ DInformerSync
    \/ OnSync
    \/ Dequeue
    \/ syncLoadBalancer
    \/ List
    \/ CanAdopt
    \/ Adopt
    \/ Cleanup
    \/ SyncScaleDown
    \/ SyncTarget
    \/ SyncCreate
    \/ SyncStatus
    \/ Finish

Spec == Init /\ [][Next]_vars

(***************************************************************************)
(* sync on its own: sync(lb, dps) entered with any LoadBalancer and any    *)
(* claimed deployments.  A claimed deployment is as an earlier pass made   *)
(* it, or differs from that in one field: made with the image of an        *)
(* earlier configuration, given a label of their own by its users, pinned  *)
(* to other nodes, taken off the host network.  The store holds the        *)
(* claimed deployments as the cache has them, or has lost some of them     *)
(* since the cache saw them.                                               *)
(***************************************************************************)
previousImage == "ipvsdr:previous"
otherNodeAffinity == "loadbalancer.alpha.caicloud.io/ns.other=true"

WithLabel(labels, key, value) ==
    [x \in DOMAIN labels \cup {key} |-> IF x = key THEN value ELSE labels[x]]

ClaimedObjects(l) ==
    LET made == generateDeployment(l, "a").obj
    IN  UNION {
          {[made EXCEPT !.replicas = r],
           [made EXCEPT !.replicas = r, !.image = previousImage],
           [made EXCEPT !.replicas = r, !.labels = WithLabel(@, "team", "net")],
           [made EXCEPT !.replicas = r, !.image = previousImage,
                        !.labels = WithLabel(@, "team", "net")],
           [made EXCEPT !.replicas = r, !.nodeAffinity = otherNodeAffinity],
           [made EXCEPT !.replicas = r, !.hostNetwork = FALSE]} :
          r \in 0..MaxReplicas}

ClaimedLists(l) ==
    UNION {
      {[i \in DOMAIN o |-> [name |-> o[i], obj |-> objs[o[i]]]] :
         o \in Orderings(S), objs \in [S -> ClaimedObjects(l)]} :
      S \in {T \in SUBSET Names : Cardinality(T) <= MaxWorkloads}}

InitSync ==
    \E l \in {LoadBalancer(1, r, TRUE, TRUE, TRUE) : r \in 0..MaxReplicas} :
      \E dps \in ClaimedLists(l) :
        \E s \in Draws(l, dps), present \in SUBSET {dps[i].name : i \in DOMAIN dps} :
          LET desired == generateDeployment(l, s)
              r == SyncFrom(l, desired, dps, 1, FALSE, desired)
              cached == [n \in {dps[i].name : i \in DOMAIN dps} |->
                           dps[CHOOSE i \in DOMAIN dps : dps[i].name = n].obj]
          IN  /\ lbStore = l
              /\ lbCache = l
              /\ nextUID = 2
              /\ dCache = cached
              /\ dStore = [n \in present |-> cached[n]]
              /\ ext = 0
              /\ queue = <<>>
              /\ dirty = {}
              /\ processing = {[lb |-> l, ptr |-> 1]}
              /\ item = [lb |-> l, ptr |-> 1]
              /\ lb = l
              /\ got = "found"
              /\ nlb = l
              /\ mode = "sync"
              /\ dList = dps
              /\ k = Len(dps) + 1
              /\ ds = dps
              /\ desiredDeploy = desired
              /\ j = r.j
              /\ updated = r.updated
              /\ activeDeploy = r.activeDeploy
              /\ pc = SyncPc(r, dps)
              /\ calls = <<Call("get", <<>>, TRUE, l), Call("list", <<>>, TRUE, NoLB)>>
              /\ err = FALSE
              /\ again = FALSE
              /\ settled = NoLB
              /\ passes = 1

NextSync ==
    \/ SyncScaleDown
    \/ SyncTarget
    \/ SyncCreate
    \/ SyncStatus

SyncSpec == InitSync /\ [][NextSync]_vars

(***************************************************************************)
(* OnSync on its own: the LoadBalancer of any type, with and without the   *)
(* ipvsdr block, the host changing it and asking for passes; no worker.    *)
(***************************************************************************)
InitNotify ==
    /\ lbStore \in {LoadBalancer(1, r, v, e, i) :
                      r \in 0..MaxReplicas, v \in BOOLEAN, e \in BOOLEAN,
                      i \in BOOLEAN}
    /\ lbCache = lbStore
    /\ nextUID = 2
    /\ dStore = <<>>
    /\ dCache = dStore
    /\ ext = 0
    /\ queue = <<>>
    /\ dirty = {}
    /\ processing = {}
    /\ pc = "idle"
    /\ item = NoItem
    /\ lb = NoLB
    /\ got = "none"
    /\ nlb = NoLB
    /\ mode = "none"
    /\ dList = <<>>
    /\ k = 1
    /\ ds = <<>>
    /\ j = 1
    /\ updated = FALSE
    /\ desiredDeploy = NoDeploy
    /\ activeDeploy = NoDeploy
    /\ calls = <<>>
    /\ err = FALSE
    /\ again = FALSE
    /\ settled = NoLB
    /\ passes = 0

NextNotify ==
    \/ HostUpdate
    \/ HostDelete
    \/ LBInformerSync
    \/ OnSync

NotifySpec == InitNotify /\ [][NextNotify]_vars

(***************************************************************************)
(* Properties.                                                             *)
(***************************************************************************)
Mutations == {"adopt", "scale", "update", "create", "delete", "status"}
Writes == {"scale", "update", "create"}

Made(ops) == {i \in DOMAIN calls : calls[i].op \in ops}
Failed(ops) == {i \in Made(ops) : ~calls[i].ok}

Prefixed(dps) ==
    {i \in DOMAIN dps : HasPrefix(dps[i].name, lb.name \o providerNameSuffix)}

First(S) == CHOOSE i \in S : \A h \in S : i <= h

\* The identity check passed: the pass works on the object of its own UID.
Fresh == got = "found" /\ nlb.uid = item.lb.uid

\* C1: after a converge pass with desired replicas > 0, exactly one
\* deployment of the LoadBalancer has replicas in the store, the first of
\* the claimed ones with the generated prefix (the created one when there
\* is none), and every other claimed one has none; stated for the passes
\* that return no error, whatever their store calls answered.
C1_ExactlyOneActive ==
    (Converged /\ CalculateReplicas(lb) > 0) =>
        LET target == IF Prefixed(ds) = {}
                      THEN desiredDeploy.name
                      ELSE ds[First(Prefixed(ds))].name
        IN  /\ target \in DOMAIN dStore
            /\ dStore[target].replicas # 0
            /\ \A i \in DOMAIN ds :
                 (ds[i].name # target /\ ds[i].name \in DOMAIN dStore)
                     => dStore[ds[i].name].replicas = 0

\* C2: a converge pass in which a Create or an Update failed returns an
\* error.
C2_WriteErrorFailsPass ==
    (pc = "done" /\ mode = "sync" /\ Failed(Writes) # {}) => err

\* C3: once the LoadBalancer is gone and its cleanup pass has run and
\* nothing is left to run, no deployment matching its selector remains.
C3_CleanupLeavesNothing ==
    (/\ pc = "done"
     /\ mode = "cleanup"
     /\ ~err
     /\ lbStore = NoLB
     /\ lbCache = NoLB
     /\ queue = <<>>
     /\ dirty = {}) =>
        {n \in DOMAIN dStore : Matches(selector(lb), dStore[n].labels)} = {}

\* C4, as claimed: an adoption makes a deployment refer to a LoadBalancer
\* that is in the store, with that UID and no deletion marker, under every
\* interleaving with the host's delete and re-create.
C4_AdoptedOwnerExists ==
    [][(pc = "adopt" /\ dStore' # dStore)
          => (lbStore # NoLB /\ lbStore.uid = lb.uid /\ ~lbStore.del)]_vars

\* C4, amended: a deployment is adopted only after the uncached read that
\* follows the list, in the same pass and for that deployment, returned an
\* object with the UID of the pass's LoadBalancer and no deletion marker.
C4_AdoptOnlyAfterRecheck ==
    \A i \in Made({"adopt"}) :
        /\ i > 1
        /\ calls[i - 1].op = "canAdopt"
        /\ calls[i - 1].name = calls[i].name
        /\ calls[i - 1].obj # NoLB
        /\ calls[i - 1].obj.uid = lb.uid
        /\ ~calls[i - 1].obj.del
        /\ \E h \in 1..(i - 2) : calls[h].op = "list" /\ calls[h].ok

\* A deployment has been adopted and the LoadBalancer deleted or replaced
\* during the pass.
C4_Witness ==
    /\ \E i \in Made({"adopt"}) : calls[i].ok
    /\ lbStore.uid # lb.uid

\* C5: a converge pass that repeats a pass that converged, on the state
\* that pass left, makes no Create and no Update.
C5_SecondPassWritesNothing == again => Made(Writes) = {}

\* C6: the queue never holds two items of the same LoadBalancer.
C6_OneItemPerKey ==
    \A a, b \in DOMAIN queue :
        a # b => KeyFunc(queue[a].lb) # KeyFunc(queue[b].lb)

\* C7, as claimed: a not-found ends the pass without error, and any other
\* error of the read is returned with nothing else done.
C7_NotFoundSucceeds ==
    /\ (pc = "done" /\ got = "notfound") => ~err
    /\ got = "error" => (pc = "done" /\ err /\ Len(calls) = 1)

\* C7, amended: on a not-found the pass runs cleanup and returns what
\* cleanup returns: no error when the deployments could be listed, however
\* the deletes went, and the error of the list otherwise; any other error
\* of the read is returned with nothing else done.
C7_NotFoundRunsCleanup ==
    /\ got = "notfound" => mode = "cleanup"
    /\ (pc = "done" /\ got = "notfound") =>
           /\ Made({"list"}) # {}
           /\ err <=> Failed({"list"}) # {}
           /\ Made(Mutations \ {"delete"}) = {}
    /\ got = "error" => (pc = "done" /\ err /\ Len(calls) = 1)

\* A cleanup has deleted a deployment and returned.
C7_Witness ==
    /\ pc = "done"
    /\ got = "notfound"
    /\ ~err
    /\ \E i \in Made({"delete"}) : calls[i].ok

\* C8: a pass whose LoadBalancer has another UID in the cache than its
\* triggering copy ends without error after the read alone; otherwise the
\* pass works on the object read: the deletion check and the desired
\* deployment are those of the object read, not of the triggering copy.
C8_WorksOnFetched ==
    /\ (got = "found" /\ nlb.uid # item.lb.uid) =>
           (pc = "done" /\ ~err /\ Len(calls) = 1)
    /\ Fresh =>
           /\ lb = nlb
           /\ nlb.del => desiredDeploy = NoDeploy
           /\ desiredDeploy # NoDeploy =>
                  /\ desiredDeploy.obj.replicas = CalculateReplicas(nlb)
                  /\ desiredDeploy.obj.owner = nlb.uid

\* A pass has converged on an object that differs from its triggering copy.
C8_Witness ==
    /\ Fresh
    /\ nlb # item.lb
    /\ Converged

\* C9, as claimed: with a deletion marker on the object read, the pass ends
\* without error and has changed nothing.
C9_DeletionEndsQuietly ==
    (Fresh /\ nlb.del) =>
        /\ Made(Mutations) = {}
        /\ pc = "done" => ~err

\* C9, amended: with a deletion marker on the object read, the pass adopts,
\* creates, updates and deletes nothing and writes no status; it ends
\* without error unless the list of the deployments failed, whose error it
\* returns.
C9_DeletionMutatesNothing ==
    (Fresh /\ nlb.del) =>
        /\ Made(Mutations) = {}
        /\ pc \in {"list", "canAdopt", "done"}
        /\ pc = "done" => (err <=> Failed({"list"}) # {})

\* A pass has found the deletion marker, declined an orphan and ended.
C9_Witness ==
    /\ Fresh
    /\ nlb.del
    /\ pc = "done"
    /\ ~err
    /\ Made({"canAdopt"}) # {}

\* C10: a pass whose triggering copy fails validation returns the error
\* and has read and written nothing, whether or not the LoadBalancer is
\* still in the store.
C10_InvalidReturnsAtOnce ==
    (pc \notin {"idle", "start"} /\ ~item.lb.valid) =>
        /\ pc = "done"
        /\ err
        /\ calls = <<>>
        /\ got = "none"
        /\ mode = "none"

\* An invalid copy has been turned down after the LoadBalancer was removed.
C10_Witness ==
    /\ pc = "done"
    /\ ~item.lb.valid
    /\ lbStore = NoLB

\* The LoadBalancers the ipvsdr provider is there for: of type external,
\* with an ipvsdr block.
ServedByIpvsdr(l) == l.external /\ l.ipvsdrSet

\* C13: OnSync enqueues the LoadBalancer only if it is one the ipvsdr
\* provider serves (the items OnSync adds are those of a host copy).
C13_EnqueuedOnlyIfServed ==
    \A i \in DOMAIN queue : queue[i].ptr # 0 => ServedByIpvsdr(queue[i].lb)

\* sync has been entered.
InSync == mode = "sync" /\ desiredDeploy # NoDeploy

\* The position of the target among the claimed deployments, when one has
\* the prefix.
Target == First(Prefixed(ds))

NonTargets == DOMAIN ds \ (IF Prefixed(ds) = {} THEN {} ELSE {Target})

\* The calls on the deployment of a name.
CallsAbout(n) == {i \in Made(Writes \cup {"delete"}) : calls[i].name = n}

\* C11: the labels of the merged deployment are those of the original and
\* those of the desired one, with the desired value where the desired one
\* has the key and the original value elsewhere; this is what an Update
\* stores; and a target that differs from the desired deployment in its
\* image only keeps its labels as they were.
C11_LabelsMerged ==
    (InSync /\ updated /\ Failed({"update"}) = {}) =>
        LET old == ds[Target].obj
            want == desiredDeploy.obj
            new == activeDeploy.obj.labels
            n == ds[Target].name
        IN  /\ activeDeploy.name = n
            /\ DOMAIN new = DOMAIN old.labels \cup DOMAIN want.labels
            /\ \A key \in DOMAIN new :
                 new[key] = IF key \in DOMAIN want.labels
                            THEN want.labels[key]
                            ELSE old.labels[key]
            /\ (Made({"update"}) # {} /\ n \in DOMAIN dStore)
                   => dStore[n].labels = new
            /\ [old EXCEPT !.image = want.image] = [want EXCEPT !.labels = old.labels]
                   => new = old.labels

\* An Update has changed the image of a target that has a label of its own.
C11_Witness ==
    /\ InSync
    /\ pc = "done"
    /\ ~err
    /\ Prefixed(ds) # {}
    /\ "team" \in DOMAIN ds[Target].obj.labels
    /\ ds[Target].obj.image # desiredDeploy.obj.image
    /\ ds[Target].obj.replicas = desiredDeploy.obj.replicas
    /\ \E i \in Made({"update"}) : calls[i].ok

\* C12: a converge pass makes one Create when no claimed deployment has the
\* prefix and none otherwise; the deployment created has the prefix, the
\* desired replicas, the created-by and provider labels and the
\* LoadBalancer as its controller.
C12_OneCreateIffNoTarget ==
    InSync =>
        /\ Cardinality(Made({"create"})) =
               IF Prefixed(ds) = {} /\ pc \in {"status", "done"} THEN 1 ELSE 0
        /\ \A i \in Made({"create"}) :
             /\ calls[i].name = desiredDeploy.name
             /\ HasPrefix(calls[i].name, lb.name \o providerNameSuffix)
             /\ calls[i].ok =>
                  /\ calls[i].name \in DOMAIN dStore
                  /\ dStore[calls[i].name].replicas = CalculateReplicas(lb)
                  /\ dStore[calls[i].name].labels =
                         [createdby |-> lbKey, provider |-> providerName]
                  /\ dStore[calls[i].name].owner = lb.uid

\* A pass has created the deployment next to a claimed one without prefix.
C12_Witness ==
    /\ InSync
    /\ pc = "done"
    /\ ds # <<>>
    /\ \E i \in Made({"create"}) : calls[i].ok

\* C15, as claimed: a converge pass deletes nothing; every claimed
\* deployment other than the target gets one Update, to the same object
\* with no replicas, when it has replicas, and no call when it has none.
C15_RetiredByScaling ==
    (InSync /\ pc \in {"status", "done"}) =>
        /\ Made({"delete"}) = {}
        /\ \A i \in NonTargets :
             IF ds[i].obj.replicas # 0
             THEN /\ Cardinality(CallsAbout(ds[i].name)) = 1
                  /\ \A c \in CallsAbout(ds[i].name) :
                       /\ calls[c].op = "scale"
                       /\ calls[c].ok =>
                            dStore[ds[i].name] = [ds[i].obj EXCEPT !.replicas = 0]
             ELSE CallsAbout(ds[i].name) = {}

\* C15, amended: the same for the deployments the loop reaches: all of
\* them, unless the Update of the target fails, which ends the pass before
\* the deployments listed after the target.
C15_RetiredByScalingWhenReached ==
    (InSync /\ pc \in {"status", "done"}) =>
        /\ Made({"delete"}) = {}
        /\ \A i \in NonTargets :
             IF ds[i].obj.replicas # 0 /\ (Failed({"update"}) = {} \/ i < Target)
             THEN /\ Cardinality(CallsAbout(ds[i].name)) = 1
                  /\ \A c \in CallsAbout(ds[i].name) :
                       /\ calls[c].op = "scale"
                       /\ calls[c].ok =>
                            dStore[ds[i].name] = [ds[i].obj EXCEPT !.replicas = 0]
             ELSE CallsAbout(ds[i].name) = {}

\* A second deployment with the prefix has been scaled to zero.
C15_Witness ==
    /\ InSync
    /\ pc = "done"
    /\ ~err
    /\ \E i \in NonTargets \cap Prefixed(ds) :
         \E c \in CallsAbout(ds[i].name) : calls[c].ok

\* C16: the target gets an Update exactly when it differs from the desired
\* deployment in its replicas, image or node affinity or lacks a desired
\* label; no other deployment gets one, and no other field counts.
C16_UpdateIffChanged ==
    (/\ InSync
     /\ Prefixed(ds) # {}
     /\ pc \in {"status", "done"} \/ (pc = "update" /\ j > Target)) =>
        LET old == ds[Target].obj
            want == desiredDeploy.obj
            differs ==
                \/ old.replicas # want.replicas
                \/ old.image # want.image
                \/ old.nodeAffinity # want.nodeAffinity
                \/ \E key \in DOMAIN want.labels :
                     \/ key \notin DOMAIN old.labels
                     \/ old.labels[key] # want.labels[key]
        IN  /\ Cardinality(Made({"update"})) = IF differs THEN 1 ELSE 0
            /\ \A i \in Made({"update"}) : calls[i].name = ds[Target].name

\* An Update has been made for the image alone.
C16_Witness ==
    /\ InSync
    /\ pc = "done"
    /\ Made({"update"}) # {}
    /\ ds[Target].obj = [desiredDeploy.obj EXCEPT !.image = previousImage]
    /\ previousImage # desiredDeploy.obj.image

C14_EveryClaimedDeleted ==
    (mode = "cleanup" /\ pc \in {"delete", "done"} /\ Failed({"list"}) = {}) =>
        LET n == Cardinality(Made({"delete"}))
        IN  /\ n = j - 1
            /\ pc = "done" => n = Len(ds)
            /\ \A i \in 1..n :
                 LET c == calls[Len(calls) - n + i]
                 IN  /\ c.op = "delete"
                     /\ c.name = ds[i].name
                     /\ c.obj = [gracePeriodSeconds |-> 30,
                                 propagationPolicy |-> "Foreground"]
            /\ ~err

\* cleanup has gone on to the second deployment after the Delete of the
\* first failed.
C14_Witness ==
    /\ mode = "cleanup"
    /\ pc = "done"
    /\ Len(ds) = 2
    /\ Made({"delete"}) # {}
    /\ ~calls[First(Made({"delete"}))].ok
    /\ \E i \in Made({"delete"}) : calls[i].ok

\* The deployments in the store that the LoadBalancer l controls.
Controlled(l) == {n \in DOMAIN dStore : dStore[n].owner = l.uid}

\* C18: a converge pass that finds a deployment with the prefix running
\* and another with the prefix at zero replicas, as an earlier pass left
\* them, does not raise the one at zero and scale the running one to zero,
\* in whatever order the lister returns them.
C18_ActiveStaysActive ==
    (InSync /\ Prefixed(ds) # {} /\ CalculateReplicas(lb) > 0) =>
        ~ /\ ds[Target].obj.replicas = 0
          /\ \E u \in Made({"update"}) :
               calls[u].ok /\ calls[u].name = ds[Target].name
          /\ \E i \in Prefixed(ds) \ {Target} :
               /\ ds[i].obj.replicas # 0
               /\ \E c \in Made({"scale"}) :
                    calls[c].ok /\ calls[c].name = ds[i].name

\* C19: a Create is made only when the store holds no deployment with the
\* prefix that the LoadBalancer controls, also when the cache has not yet
\* seen the deployment an earlier pass created.
C19_CreateOnlyWhenNoneStored ==
    [][(pc = "create" /\ calls' # calls) =>
           ~ \E n \in Controlled(lb) :
                 HasPrefix(n, lb.name \o providerNameSuffix)]_vars

\* The system is at rest after a pass that returned no error: nothing is
\* queued or running, the caches have caught up, and the LoadBalancer is
\* the one that pass worked on.
AtRest ==
    /\ pc = "idle"
    /\ queue = <<>>
    /\ dirty = {}
    /\ lbCache = lbStore
    /\ dCache = dStore
    /\ settled # NoLB
    /\ settled = lbStore

\* C20: for a valid LoadBalancer without deletion marker and with desired
\* replicas, the state the system comes to rest in, where no pass is left
\* to run, has exactly one deployment of the LoadBalancer with replicas: it
\* has the prefix and the desired replicas, image, labels and node
\* affinity, and all the others have none.
C20_AtRestIsConverged ==
    (AtRest /\ lbStore.valid /\ ~lbStore.del /\ CalculateReplicas(lbStore) > 0) =>
        LET active == {n \in Controlled(lbStore) : dStore[n].replicas # 0}
            want == generateDeployment(lbStore, "a").obj
        IN  /\ Cardinality(active) = 1
            /\ \A n \in active :
                 /\ HasPrefix(n, lbStore.name \o providerNameSuffix)
                 /\ dStore[n].replicas = want.replicas
                 /\ dStore[n].image = want.image
                 /\ dStore[n].labels = want.labels
                 /\ dStore[n].nodeAffinity = want.nodeAffinity

====
